---- MODULE Spec2Model ----
(***************************************************************************)
(* Model of examples/contrib/oed/models/bayes_linear.py:                   *)
(*   group_assignment_matrix, analytic_posterior_cov,                      *)
(*   bayesian_linear_model and normal_inv_gamma_family_guide.              *)
(* Tensors are modelled by their shapes (tuples of naturals) wherever the  *)
(* code only depends on the shape, by exact integer / rational matrices    *)
(* where it depends on the values.                                         *)
(***************************************************************************)
EXTENDS Integers, Sequences, FiniteSets, TLC

VARIABLES gam_in, gam_out, cov_in, cov_out, cfg, model_out, guide_out, store

vars == <<gam_in, gam_out, cov_in, cov_out, cfg, model_out, guide_out, store>>

(***************************************************************************)
(* Bounds of the model.                                                    *)
(***************************************************************************)
\* group-size vectors have at most MaxP entries
MaxP == 3
\* the largest group size (in whole units)
MaxSize == 2
\* group sizes are multiples of 1/Den (Den = 1 would make them all integral)
Den == 2

NotCalled == [called |-> FALSE]

(***************************************************************************)
(* Small helpers.                                                          *)
(***************************************************************************)
RECURSIVE SumSeq(_)
SumSeq(s) == IF s = <<>> THEN 0 ELSE Head(s) + SumSeq(Tail(s))

Max2(a, b) == IF a >= b THEN a ELSE b
Min2(a, b) == IF a <= b THEN a ELSE b

RECURSIVE SeqsUpTo(_, _)
\* all sequences over S of length at most k
SeqsUpTo(S, k) ==
    IF k = 0 THEN {<<>>}
    ELSE LET shorter == SeqsUpTo(S, k - 1)
         IN  shorter \cup {Append(s, e) : s \in shorter, e \in S}

(***************************************************************************)
(* group_assignment_matrix                                                 *)
(* A size is the numerator k of the fraction k/Den.                        *)
(***************************************************************************)
SizeVals == (0 - Den)..(MaxSize * Den)

Designs == SeqsUpTo(SizeVals, MaxP)

\* int(.) of a Python/torch scalar k/Den: truncation toward zero
IntTrunc(k) == IF k >= 0 THEN k \div Den ELSE 0 - ((0 - k) \div Den)

\* torch.zeros(n, p), rows and columns numbered from 1
Zeros(n, p) == [r \in 1..n |-> [c \in 1..p |-> 0]]

\* the 0-based row indices a Python slice [a:b] selects in a dimension of
\* length n (negative bounds count from the end, both bounds are clipped)
SliceBound(a, n) == IF a < 0 THEN Max2(a + n, 0) ELSE Min2(a, n)
SliceRows(a, b, n) == { r \in 0..(n - 1) : SliceBound(a, n) <= r /\ r < SliceBound(b, n) }

\* X[rows, col] = 1.   (col is 1-based here)
SetOnes(X, rows, col) ==
    [r \in 1..Len(X) |-> [c \in 1..Len(X[r]) |->
        IF (r - 1) \in rows /\ c = col THEN 1 ELSE X[r][c]]]

\* variant of SetRun: the run starts one row late
SetRunShifted(X, t, i, col, n) ==
    IF i > 0 THEN SetOnes(X, SliceRows(t + 1, t + i, n), col) ELSE X

\* if i > 0: X[t:t+i, col] = 1.
SetRun(X, t, i, col, n) ==
    IF i > 0 THEN SetOnes(X, SliceRows(t, t + i, n), col) ELSE X

\* variant of Residual: the residual rows are left unassigned
ResidualDropped(X, t, n, p) == X

\* if t < n: X[t:, -1] = 1.
Residual(X, t, n, p) ==
    IF t < n THEN SetOnes(X, SliceRows(t, n, n), p) ELSE X

RECURSIVE GamLoop(_, _, _, _, _)
\* for col, i in enumerate(design): ...; returns the matrix and t after the loop
GamLoop(design, col, X, t, n) ==
    IF col > Len(design) THEN [X |-> X, t |-> t]
    ELSE LET i == IntTrunc(design[col])
         IN  GamLoop(design, col + 1, SetRun(X, t, i, col, n), t + i, n)

group_assignment_matrix(design) ==
    LET n == IntTrunc(SumSeq(design))
        p == Len(design)
    IN  IF n < 0
        THEN [called |-> TRUE, err |-> "RuntimeError", n |-> n, p |-> p, X |-> <<>>]
        ELSE LET after == GamLoop(design, 1, Zeros(n, p), 0, n)
             IN  [called |-> TRUE, err |-> "none", n |-> n, p |-> p,
                  X |-> Residual(after.X, after.t, n, p)]

\* the call of the pure function on the caller's group-size vector
GamCall ==
    /\ gam_out = NotCalled
    /\ gam_out' = group_assignment_matrix(gam_in)
    /\ UNCHANGED <<gam_in, cov_in, cov_out, cfg, model_out, guide_out, store>>

\* the variables of the other programs of the module, idle
IdleCov == cov_in = <<>> /\ cov_out = NotCalled
IdleGAM == gam_in = <<>> /\ gam_out = NotCalled
IdleBLM == cfg = <<>> /\ model_out = NotCalled /\ guide_out = NotCalled /\ store = <<>>

\* the caller passes any group-size vector
InitGAM ==
    /\ gam_in \in Designs
    /\ gam_out = NotCalled
    /\ IdleCov
    /\ IdleBLM

NextGAM == GamCall

SpecGAM == InitGAM /\ [][NextGAM]_vars

(***************************************************************************)
(* Properties of group_assignment_matrix.                                  *)
(***************************************************************************)
\* rows (1-based) of the returned matrix that hold a 1 in column c
OnesInCol(c) == { r \in 1..Len(gam_out.X) : gam_out.X[r][c] = 1 }

\* columns that hold a 1 in row r
OnesInRow(r) == { c \in 1..Len(gam_out.X[r]) : gam_out.X[r][c] = 1 }

\* sum of the truncated sizes of the columns before column c
TruncBefore(c) == SumSeq([j \in 1..(c - 1) |-> IntTrunc(gam_in[j])])

TruncTotal == TruncBefore(Len(gam_in) + 1)

GamShapeOk ==
    /\ gam_out.err = "none"
    /\ gam_out.p = Len(gam_in)
    /\ Len(gam_out.X) = gam_out.n
    /\ \A r \in 1..gam_out.n :
          /\ Len(gam_out.X[r]) = gam_out.p
          /\ \A c \in 1..gam_out.p : gam_out.X[r][c] \in {0, 1}

GamNonNegative == \A i \in 1..Len(gam_in) : gam_in[i] >= 0

GamIntegral == \A i \in 1..Len(gam_in) : gam_in[i] % Den = 0

\* C1: for non-negative integer group sizes the result is an n x p 0/1
\* matrix, n the sum of the sizes, whose column i holds exactly
\* group_sizes[i] ones in one run of rows starting right after the run of
\* column i-1, so that every row holds exactly one 1.
C1_GroupRuns ==
    (gam_out.called /\ GamNonNegative /\ GamIntegral) =>
        /\ GamShapeOk
        /\ gam_out.n * Den = SumSeq(gam_in)
        /\ \A c \in 1..gam_out.p :
              OnesInCol(c) = (TruncBefore(c) + 1)..(TruncBefore(c) + IntTrunc(gam_in[c]))
        /\ \A r \in 1..gam_out.n : Cardinality(OnesInRow(r)) = 1

\* the sizes [2, 0, 1] (an empty group in the middle) have been converted
C1_Witness ==
    /\ gam_out.called
    /\ gam_in = <<2 * Den, 0, 1 * Den>>
    /\ gam_out.n = 3
    /\ OnesInCol(1) = 1..2
    /\ OnesInCol(2) = {}
    /\ OnesInCol(3) = {3}

\* C6 (as claimed): a group-size vector with a negative entry is rejected
\* with an error and no matrix is returned.
C6_NegativeRejected ==
    (gam_out.called /\ ~GamNonNegative) => gam_out.err # "none"

\* C9: with non-negative sizes whose truncations sum to t < n, column i
\* still holds a run of trunc(size_i) ones starting at the sum of the
\* preceding truncated sizes, the rows t..n-1 go to the last column, and
\* every row holds exactly one 1.
C9_ResidualToLast ==
    (gam_out.called /\ GamNonNegative /\ TruncTotal < gam_out.n) =>
        /\ GamShapeOk
        /\ \A c \in 1..gam_out.p :
              OnesInCol(c) =
                  ((TruncBefore(c) + 1)..(TruncBefore(c) + IntTrunc(gam_in[c])))
                  \cup (IF c = gam_out.p THEN (TruncTotal + 1)..gam_out.n ELSE {})
        /\ \A r \in 1..gam_out.n : Cardinality(OnesInRow(r)) = 1

\* sizes [1.5, 0.5]: one row from truncation, one residual row
C9_Witness ==
    /\ gam_out.called
    /\ GamNonNegative
    /\ Len(gam_in) = 2
    /\ IntTrunc(gam_in[1]) = 1
    /\ TruncTotal = 1
    /\ gam_out.n = 2
    /\ OnesInCol(2) = {2}

(***************************************************************************)
(* analytic_posterior_cov                                                  *)
(* Matrices are sequences of rows of integers; the inverse is exact:       *)
(* inverse(M) = Adjugate(M) / Det(M), so the returned covariance is the    *)
(* rational matrix num / den.                                              *)
(***************************************************************************)
\* prior_cov is p x p with p in Dims
Dims == {1, 2}
\* the numbers of rows of x
ObsCounts == {1, 2}
\* entries of prior_cov range over -MaxEntry..MaxEntry
MaxEntry == 1
\* entries of x range over 0..MaxX
MaxX == 1
\* obs_sd ranges over 0..MaxSd
MaxSd == 2

NRows(A) == Len(A)
NCols(A) == IF Len(A) = 0 THEN 0 ELSE Len(A[1])

\* A.mm(B)
MatMul(A, B) ==
    [r \in 1..NRows(A) |-> [c \in 1..NCols(B) |->
        SumSeq([k \in 1..NCols(A) |-> A[r][k] * B[k][c]])]]

\* A.t()
Transpose(A) == [r \in 1..NCols(A) |-> [c \in 1..NRows(A) |-> A[c][r]]]

\* torch.eye(p)
Eye(p) == [r \in 1..p |-> [c \in 1..p |-> IF r = c THEN 1 ELSE 0]]

MatAdd(A, B) == [r \in 1..NRows(A) |-> [c \in 1..NCols(A) |-> A[r][c] + B[r][c]]]
MatSub(A, B) == [r \in 1..NRows(A) |-> [c \in 1..NCols(A) |-> A[r][c] - B[r][c]]]
MatScale(k, A) == [r \in 1..NRows(A) |-> [c \in 1..NCols(A) |-> k * A[r][c]]]

\* A without row i and column j
Minor(A, i, j) ==
    [r \in 1..(NRows(A) - 1) |-> [c \in 1..(NCols(A) - 1) |->
        A[IF r < i THEN r ELSE r + 1][IF c < j THEN c ELSE c + 1]]]

Sign(k) == IF k % 2 = 0 THEN 1 ELSE 0 - 1

RECURSIVE Det(_)
Det(A) ==
    IF NRows(A) = 0 THEN 1
    ELSE SumSeq([j \in 1..NCols(A) |-> Sign(1 + j) * A[1][j] * Det(Minor(A, 1, j))])

Adjugate(A) ==
    [r \in 1..NRows(A) |-> [c \in 1..NCols(A) |-> Sign(r + c) * Det(Minor(A, c, r))]]

\* SigmaXX = prior_cov.mm(x.t().mm(x))
SigmaXXOf(prior_cov, x) == MatMul(prior_cov, MatMul(Transpose(x), x))

\* variant of analytic_posterior_cov: the correction term lacks SigmaXX.mm
analytic_posterior_cov_gram_dropped(prior_cov, x, obs_sd) ==
    LET pdim == NCols(prior_cov)
        SigmaXX == SigmaXXOf(prior_cov, x)
        M == MatAdd(SigmaXX, MatScale(obs_sd * obs_sd, Eye(pdim)))
        det == Det(M)
    IN  IF det = 0
        THEN [called |-> TRUE, err |-> "RuntimeError"]
        ELSE [called |-> TRUE, err |-> "none", den |-> det,
              num |-> MatSub(MatScale(det, prior_cov),
                             MatMul(Adjugate(M), prior_cov))]

\* posterior_cov = prior_cov - inverse(SigmaXX + obs_sd**2 * eye(p)).mm(SigmaXX.mm(prior_cov))
\* torch.inverse raises on a singular matrix.
analytic_posterior_cov(prior_cov, x, obs_sd) ==
    LET pdim == NCols(prior_cov)
        SigmaXX == SigmaXXOf(prior_cov, x)
        M == MatAdd(SigmaXX, MatScale(obs_sd * obs_sd, Eye(pdim)))
        det == Det(M)
    IN  IF det = 0
        THEN [called |-> TRUE, err |-> "RuntimeError"]
        ELSE [called |-> TRUE, err |-> "none", den |-> det,
              num |-> MatSub(MatScale(det, prior_cov),
                             MatMul(Adjugate(M), MatMul(SigmaXX, prior_cov)))]

\* symmetric pdim x pdim matrices over S
SymMatrices(pdim, S) ==
    LET Upper == { <<r, c>> \in (1..pdim) \X (1..pdim) : r <= c }
    IN  { [r \in 1..pdim |-> [c \in 1..pdim |-> f[<<Min2(r, c), Max2(r, c)>>]]] :
            f \in [Upper -> S] }

\* n x pdim matrices over S
Matrices(n, pdim, S) == [1..n -> [1..pdim -> S]]

\* the call of the pure function on the caller's arguments
CovCall ==
    /\ cov_out = NotCalled
    /\ cov_out' = analytic_posterior_cov(cov_in.prior_cov, cov_in.x, cov_in.obs_sd)
    /\ UNCHANGED <<cov_in, gam_in, gam_out, cfg, model_out, guide_out, store>>

\* the caller passes a symmetric prior covariance, a design with the same
\* number of columns and a noise level
InitCov ==
    /\ \E pdim \in Dims, n \in ObsCounts :
          cov_in \in [prior_cov : SymMatrices(pdim, (0 - MaxEntry)..MaxEntry),
                      x : Matrices(n, pdim, 0..MaxX),
                      obs_sd : 0..MaxSd]
    /\ cov_out = NotCalled
    /\ IdleGAM
    /\ IdleBLM

NextCov == CovCall

SpecCov == InitCov /\ [][NextCov]_vars

XAllZero == \A r \in 1..NRows(cov_in.x) : \A c \in 1..NCols(cov_in.x) : cov_in.x[r][c] = 0

\* C8: with an all-zero design x and a non-zero obs_sd the returned
\* posterior covariance equals the prior covariance.
C8_ZeroDesignKeepsPrior ==
    (cov_out.called /\ XAllZero /\ cov_in.obs_sd # 0) =>
        /\ cov_out.err = "none"
        /\ cov_out.den # 0
        /\ \A r \in 1..NRows(cov_in.prior_cov) : \A c \in 1..NCols(cov_in.prior_cov) :
              cov_out.num[r][c] = cov_out.den * cov_in.prior_cov[r][c]

\* a 2 x 2 correlated prior, a 2 x 2 zero design, obs_sd = 2
C8_Witness ==
    /\ cov_out.called
    /\ XAllZero
    /\ NRows(cov_in.x) = 2
    /\ cov_in.obs_sd = 2
    /\ cov_in.prior_cov = <<<<1, 1>>, <<1, 1>>>>
    /\ cov_out.err = "none"

(***************************************************************************)
(* bayesian_linear_model and normal_inv_gamma_family_guide                 *)
(* A tensor is modelled by its shape, a tuple of positive integers (the    *)
(* scalar has shape << >>); a sample site by its name, the shape of the    *)
(* draw and the distribution family.                                       *)
(***************************************************************************)
\* batch shapes are () and (b,) for b in 2..MaxBatch
MaxBatch == 2
\* a random-effect group has a group size in 1..MaxGroupSize
MaxGroupSize == 2
\* n, the number of observations (rows of the design)
NObs == 2

BatchShapes == {<<>>} \cup { <<b>> : b \in 2..MaxBatch }
\* trailing sizes of w_sqrtlambdas[name]
Widths == {1, 2}
\* trailing sizes of re_alphas[name]
GroupWidths == {1, 2}
FixedLabels == {"w1", "w2"}
RandomLabels == {"u1", "u2"}
Responses == {"normal", "bernoulli", "poisson"}

\* a failed broadcast is recorded as a negative dimension
IsShape(s) == \A i \in 1..Len(s) : s[i] >= 1

\* dimension i of s counted from the right, 1 when s has fewer dimensions
DimR(s, i) == IF i <= Len(s) THEN s[Len(s) - i + 1] ELSE 1

\* torch broadcasting of two shapes
Broadcast(s1, s2) ==
    LET L == Max2(Len(s1), Len(s2))
    IN  [k \in 1..L |->
            LET d1 == DimR(s1, L - k + 1)
                d2 == DimR(s2, L - k + 1)
            IN  IF d1 < 0 \/ d2 < 0 THEN 0 - 1
                ELSE IF d1 = d2 THEN d1
                ELSE IF d1 = 1 THEN d2
                ELSE IF d2 = 1 THEN d1
                ELSE 0 - 1]

\* t.expand(target) succeeds
Expandable(s, target) ==
    /\ Len(s) <= Len(target)
    /\ \A i \in 1..Len(s) : DimR(s, i) = DimR(target, i) \/ DimR(s, i) = 1

\* variant of RepeatShape: G is not repeated
RepeatShapeMissing(shape, reps) == shape

\* t.repeat(reps) for reps as long as the shape
RepeatShape(shape, reps) == [i \in 1..Len(shape) |-> shape[i] * reps[i]]

Site(name, shape, family) == [name |-> name, shape |-> shape, dist |-> family]

\* design.shape[:-2]
TauShape(c) == c.batch

\* variant of NoiseStep: warns only when alpha_0 and beta_0 are both given
NoiseStepAndOnly(c) ==
    IF ~c.obs_known
    THEN IF ~c.alpha_0 \/ ~c.beta_0
         THEN [err |-> "AttributeError", trace |-> <<>>, warnings |-> 0, obs_sd |-> <<>>]
         ELSE [err |-> "none", trace |-> <<Site("tau", TauShape(c), "Gamma")>>,
               warnings |-> 0, obs_sd |-> TauShape(c) \o <<1>>]
    ELSE [err |-> "none", trace |-> <<>>,
          warnings |-> IF c.alpha_0 /\ c.beta_0 THEN 1 ELSE 0,
          obs_sd |-> TauShape(c) \o <<1>>]

\* if obs_sd is None: tau ~ Gamma(alpha_0.expand(..), beta_0.expand(..)), which
\* needs alpha_0 and beta_0 (None has no expand);
\* elif alpha_0 is not None or beta_0 is not None: warnings.warn(..);
\* obs_sd = obs_sd.expand(tau_shape).unsqueeze(-1)
NoiseStep(c) ==
    IF ~c.obs_known
    THEN IF ~c.alpha_0 \/ ~c.beta_0
         THEN [err |-> "AttributeError", trace |-> <<>>, warnings |-> 0, obs_sd |-> <<>>]
         ELSE [err |-> "none", trace |-> <<Site("tau", TauShape(c), "Gamma")>>,
               warnings |-> 0, obs_sd |-> TauShape(c) \o <<1>>]
    ELSE [err |-> "none", trace |-> <<>>,
          warnings |-> IF c.alpha_0 \/ c.beta_0 THEN 1 ELSE 0,
          obs_sd |-> TauShape(c) \o <<1>>]

RECURSIVE FixedEffects(_, _, _, _)
\* for name, w_sqrtlambda in w_sqrtlambdas.items(): sample name from
\* Normal(w_mean, obs_sd / w_sqrtlambda).independent(1) and append it to w.
\* st = [trace, w]: the sites registered and the list w of drawn blocks
FixedEffects(groups, k, obs_sd, st) ==
    IF k > Len(groups) THEN st
    ELSE LET g == groups[k]
             shape == Broadcast(<<g.width>>, obs_sd)
         IN  FixedEffects(groups, k + 1, obs_sd,
                 [trace |-> Append(st.trace, Site(g.label, shape, "Normal")),
                  w |-> Append(st.w, [label |-> g.label, shape |-> shape])])

RECURSIVE RandomEffects(_, _, _, _)
\* for name, group_size in re_group_sizes.items(): sample "G_" + name from
\* Gamma(alpha.expand(tau_shape + (group_p,)), ..), then name from
\* Normal(0, G.repeat(repeat_shape)).independent(1) and append it to w
RandomEffects(groups, k, tau_shape, st) ==
    IF k > Len(groups) THEN st
    ELSE LET g == groups[k]
             G_shape == tau_shape \o <<g.group_p>>
             repeat_shape == [i \in 1..Len(tau_shape) |-> 1] \o <<g.group_size>>
             shape == RepeatShape(G_shape, repeat_shape)
         IN  RandomEffects(groups, k + 1, tau_shape,
                 [trace |-> Append(Append(st.trace, Site("G_" \o g.label, G_shape, "Gamma")),
                                   Site(g.label, shape, "Normal")),
                  w |-> Append(st.w, [label |-> g.label, shape |-> shape])])

\* the last dimension of a shape
LastDim(shape) == shape[Len(shape)]

RECURSIVE CatReversed(_)
\* variant of Cat: the blocks are concatenated last to first
CatReversed(blocks) ==
    IF blocks = <<>> THEN <<>>
    ELSE CatReversed(Tail(blocks)) \o
         [i \in 1..LastDim(Head(blocks).shape) |-> [label |-> Head(blocks).label, idx |-> i]]

RECURSIVE Cat(_)
\* torch.cat(w, dim=-2): the entries of the blocks, one after the other;
\* an entry is named by its group and its index in the group
Cat(blocks) ==
    IF blocks = <<>> THEN <<>>
    ELSE [i \in 1..LastDim(Head(blocks).shape) |-> [label |-> Head(blocks).label, idx |-> i]]
         \o Cat(Tail(blocks))

\* an evaluation that raised: what had been registered and built until then
Raised(error, where, trace, warnings, w) ==
    [called |-> TRUE, err |-> error, at |-> where, trace |-> trace,
     warnings |-> warnings, w |-> w, pred |-> <<>>]

\* one evaluation of the model on configuration c.  cat of an empty list and
\* a matmul of a design with p columns and a w of another length raise.
bayesian_linear_model(c) ==
    LET noise == NoiseStep(c)
    IN  IF noise.err # "none" THEN Raised(noise.err, "noise", noise.trace, noise.warnings, <<>>)
        ELSE
        LET fe == FixedEffects(c.fixed, 1, noise.obs_sd, [trace |-> noise.trace, w |-> <<>>])
            re == RandomEffects(c.random, 1, TauShape(c), fe)
            w == Cat(re.w)
        IN  IF re.w = <<>> THEN Raised("RuntimeError", "cat", re.trace, noise.warnings, <<>>)
            ELSE IF Len(w) # c.p THEN Raised("RuntimeError", "matmul", re.trace, noise.warnings, w)
            ELSE LET pred == [k \in 1..c.p |-> [col |-> k, coef |-> w[k]]]
                 IN  IF c.response = "normal"
                     THEN [called |-> TRUE, err |-> "none", at |-> "return",
                           trace |-> Append(re.trace, Site("y", TauShape(c) \o <<NObs>>, "Normal")),
                           warnings |-> noise.warnings, w |-> w, pred |-> pred]
                     ELSE IF c.response = "bernoulli"
                     THEN [called |-> TRUE, err |-> "none", at |-> "return",
                           trace |-> Append(re.trace, Site("y", TauShape(c) \o <<NObs>>, "Bernoulli")),
                           warnings |-> noise.warnings, w |-> w, pred |-> pred]
                     ELSE [called |-> TRUE, err |-> "ValueError", at |-> "response",
                           trace |-> re.trace, warnings |-> noise.warnings,
                           w |-> w, pred |-> pred]

(***************************************************************************)
(* Configurations.                                                         *)
(***************************************************************************)
\* sequences of records of S with pairwise distinct labels
DistinctLabels(q) == \A i, j \in 1..Len(q) : i # j => q[i].label # q[j].label

FixedGroups == [label : FixedLabels, width : Widths]
RandomGroups == [label : RandomLabels, group_size : 1..MaxGroupSize, group_p : GroupWidths]

FixedSeqs == { q \in SeqsUpTo(FixedGroups, Cardinality(FixedLabels)) : DistinctLabels(q) }
RandomSeqs == { q \in SeqsUpTo(RandomGroups, Cardinality(RandomLabels)) : DistinctLabels(q) }

\* the number of coefficients the groups supply
CoefCount(fixed, random) ==
    SumSeq([i \in 1..Len(fixed) |-> fixed[i].width])
    + SumSeq([i \in 1..Len(random) |-> random[i].group_size * random[i].group_p])

\* the design has as many columns as the groups supply coefficients, or one more
Configs ==
    { [batch |-> b, obs_known |-> k, alpha_0 |-> a, beta_0 |-> bb, response |-> r,
       fixed |-> f, random |-> u, p |-> Max2(1, CoefCount(f, u) + d)] :
        b \in BatchShapes, k \in BOOLEAN, a \in BOOLEAN, bb \in BOOLEAN,
        r \in Responses, f \in FixedSeqs, u \in RandomSeqs, d \in {0, 1} }

EmptyStore == [name \in {} |-> <<>>]

\* the model is evaluated on the caller's configuration
EvalModel ==
    /\ model_out = NotCalled
    /\ model_out' = bayesian_linear_model(cfg)
    /\ UNCHANGED <<cfg, guide_out, store, gam_in, gam_out, cov_in, cov_out>>

InitBLM ==
    /\ cfg \in Configs
    /\ model_out = NotCalled
    /\ guide_out = NotCalled
    /\ store = EmptyStore
    /\ IdleGAM
    /\ IdleCov

NextBLM == EvalModel

SpecBLM == InitBLM /\ [][NextBLM]_vars

(***************************************************************************)
(* normal_inv_gamma_family_guide and the parameter store                   *)
(***************************************************************************)
\* pyro.param(name, init): the first call stores init under name; later
\* calls return what is stored and ignore init.  Only shapes are kept.
Param(st, name, init_shape) ==
    IF name \in DOMAIN st
    THEN [store |-> st, shape |-> st[name]]
    ELSE [store |-> [n \in DOMAIN st \cup {name} |-> IF n = name THEN init_shape ELSE st[n]],
          shape |-> init_shape]

GuideRaised(error, trace, st, conflict) ==
    [called |-> TRUE, err |-> error, trace |-> trace, store |-> st, conflict |-> conflict]

\* lines 223-233: with obs_sd None, tau ~ Gamma(softplus(param(..)), softplus(param(..)))
\* and obs_sd = 1/sqrt(tau); then obs_sd.expand(tau_shape).unsqueeze(-1).
\* conflict records that a stored parameter had another shape than the one
\* the design implies.
GuideNoise(tau_shape, obs_known, st) ==
    IF obs_known
    THEN [err |-> "none", trace |-> <<>>, store |-> st, conflict |-> FALSE,
          obs_sd |-> tau_shape \o <<1>>]
    ELSE LET a == Param(st, "invsoftplus_alpha", tau_shape)
             b == Param(a.store, "invsoftplus_beta", tau_shape)
             tau == Broadcast(a.shape, b.shape)
             conflict == a.shape # tau_shape \/ b.shape # tau_shape
         IN  IF ~IsShape(tau)
             THEN [err |-> "RuntimeError", trace |-> <<>>, store |-> b.store,
                   conflict |-> conflict, obs_sd |-> <<>>]
             ELSE IF ~Expandable(tau, tau_shape)
             THEN [err |-> "RuntimeError", trace |-> <<Site("tau", tau, "Gamma")>>,
                   store |-> b.store, conflict |-> conflict, obs_sd |-> <<>>]
             ELSE [err |-> "none", trace |-> <<Site("tau", tau, "Gamma")>>,
                   store |-> b.store, conflict |-> conflict,
                   obs_sd |-> tau_shape \o <<1>>]

RECURSIVE GuideGroups(_, _, _, _, _)
\* lines 235-243: for name, size in w_sizes.items(): the parameters
\* "<name>_guide_mean" and "<name>_guide_sqrtlambda" of shape tau_shape + size,
\* and the site name ~ Normal(mw_param, obs_sd / sqrtlambda_param).independent(1)
GuideGroups(w_sizes, k, tau_shape, obs_sd, st) ==
    IF k > Len(w_sizes) \/ st.err # "none" THEN st
    ELSE LET name == w_sizes[k].label
             w_shape == tau_shape \o w_sizes[k].size
             mw == Param(st.store, name \o "_guide_mean", w_shape)
             sl == Param(mw.store, name \o "_guide_sqrtlambda", w_shape)
             shape == Broadcast(mw.shape, Broadcast(obs_sd, sl.shape))
             conflict == st.conflict \/ mw.shape # w_shape \/ sl.shape # w_shape
         IN  IF ~IsShape(shape)
             THEN GuideRaised("RuntimeError", st.trace, sl.store, conflict)
             ELSE GuideGroups(w_sizes, k + 1, tau_shape, obs_sd,
                      [called |-> TRUE, err |-> "none",
                       trace |-> Append(st.trace, Site(name, shape, "Normal")),
                       store |-> sl.store, conflict |-> conflict])

\* one evaluation of the guide on (design, obs_sd, w_sizes) with the
\* parameter store st
normal_inv_gamma_family_guide(tau_shape, obs_known, w_sizes, st) ==
    LET noise == GuideNoise(tau_shape, obs_known, st)
    IN  IF noise.err # "none"
        THEN GuideRaised(noise.err, noise.trace, noise.store, noise.conflict)
        ELSE GuideGroups(w_sizes, 1, tau_shape, noise.obs_sd,
                 [called |-> TRUE, err |-> "none", trace |-> noise.trace,
                  store |-> noise.store, conflict |-> noise.conflict])

\* the w_sizes the guide is given for a model configuration, as the presets
\* normal_guide, group_normal_guide and normal_inverse_gamma_guide build it:
\* every coefficient label of the model with the shape of its coefficient
WSizes(c) ==
    [i \in 1..Len(c.fixed) |-> [label |-> c.fixed[i].label, size |-> <<c.fixed[i].width>>]]
    \o [i \in 1..Len(c.random) |->
          [label |-> c.random[i].label,
           size |-> <<c.random[i].group_size * c.random[i].group_p>>]]

\* the configurations of the guide runs: at most one fixed-effect and one
\* random-effect group, a matching design, a valid response, and a noise
\* prior exactly when the noise is unknown
GuideConfigs ==
    { c \in Configs :
        /\ Len(c.fixed) <= 1 /\ Len(c.random) <= 1
        /\ \A i \in 1..Len(c.fixed) : c.fixed[i].label = "w1"
        /\ \A i \in 1..Len(c.random) : c.random[i].label = "u1"
        /\ c.p = CoefCount(c.fixed, c.random)
        /\ c.response = "normal"
        /\ c.alpha_0 = c.beta_0 /\ c.alpha_0 = ~c.obs_known }

\* the guide is evaluated on the configuration of the model; the parameters
\* it creates stay in the process-wide store
EvalGuide ==
    /\ guide_out = NotCalled
    /\ LET out == normal_inv_gamma_family_guide(TauShape(cfg), cfg.obs_known, WSizes(cfg), store)
       IN  /\ guide_out' = out
           /\ store' = out.store
    /\ UNCHANGED <<cfg, model_out, gam_in, gam_out, cov_in, cov_out>>

\* the inference driver moves on to another design or configuration; the
\* parameter store is kept
Reconfigure ==
    /\ guide_out # NotCalled
    /\ \E c \in GuideConfigs :
          /\ cfg' = c
          /\ model_out' = NotCalled
          /\ guide_out' = NotCalled
    /\ UNCHANGED <<store, gam_in, gam_out, cov_in, cov_out>>

InitGuide ==
    /\ cfg \in GuideConfigs
    /\ model_out = NotCalled
    /\ guide_out = NotCalled
    /\ store = EmptyStore
    /\ IdleGAM
    /\ IdleCov

NextGuide == EvalModel \/ EvalGuide \/ Reconfigure

SpecGuide == InitGuide /\ [][NextGuide]_vars

(***************************************************************************)
(* Properties of bayesian_linear_model.                                    *)
(***************************************************************************)
ValidResponses == {"normal", "bernoulli"}

\* the configuration has what the noise step needs
NoiseGiven(c) == c.obs_known \/ (c.alpha_0 /\ c.beta_0)

\* at least one coefficient group, and a design with one column per coefficient
DesignFits(c) ==
    /\ Len(c.fixed) + Len(c.random) >= 1
    /\ c.p = CoefCount(c.fixed, c.random)

\* the configurations the model evaluates to the end
Accepted(c) == NoiseGiven(c) /\ DesignFits(c) /\ c.response \in ValidResponses

\* the coefficient labels in the caller's order: fixed effects, then random effects
CoefLabels(c) ==
    [i \in 1..Len(c.fixed) |-> c.fixed[i].label]
    \o [i \in 1..Len(c.random) |-> c.random[i].label]

Names(trace) == [i \in 1..Len(trace) |-> trace[i].name]

Positions(trace, name) == { i \in 1..Len(trace) : trace[i].name = name }

SiteOf(trace, name) == trace[CHOOSE i \in 1..Len(trace) : trace[i].name = name]

IsCoefSite(site) == \E j \in 1..Len(CoefLabels(cfg)) : CoefLabels(cfg)[j] = site.name

\* C3: with a known obs_sd and a non-null alpha_0 or beta_0 the noise step
\* does not raise, no "tau" site is registered, exactly one warning is
\* emitted and the evaluation goes on to the coefficient sites and (for a
\* configuration that is otherwise accepted) to the response; with obs_sd
\* absent (and its prior given) "tau" is registered exactly once, as the
\* first site, and there is no warning.
C3_WarningPath ==
    model_out.called =>
        /\ (cfg.obs_known /\ (cfg.alpha_0 \/ cfg.beta_0)) =>
              /\ model_out.at # "noise"
              /\ Positions(model_out.trace, "tau") = {}
              /\ model_out.warnings = 1
              /\ \A j \in 1..Len(CoefLabels(cfg)) :
                    Cardinality(Positions(model_out.trace, CoefLabels(cfg)[j])) = 1
              /\ Accepted(cfg) =>
                    /\ model_out.err = "none"
                    /\ Positions(model_out.trace, "y") = {Len(model_out.trace)}
        /\ (~cfg.obs_known /\ cfg.alpha_0 /\ cfg.beta_0) =>
              /\ model_out.at # "noise"
              /\ Positions(model_out.trace, "tau") = {1}
              /\ model_out.warnings = 0
        /\ ~cfg.obs_known => model_out.warnings = 0

\* known noise, alpha_0 alone supplied, the evaluation has returned
C3_Witness ==
    /\ model_out.called
    /\ cfg.obs_known /\ cfg.alpha_0 /\ ~cfg.beta_0
    /\ model_out.err = "none"
    /\ model_out.warnings = 1
    /\ Len(model_out.trace) >= 3

\* C4 (as claimed): with a response kind other than "normal" or "bernoulli"
\* (in a configuration that is accepted otherwise) the evaluation fails
\* with the unknown-response error and no sample site has been registered
\* when the error is raised.
C4_NoPartialTrace ==
    (model_out.called /\ NoiseGiven(cfg) /\ DesignFits(cfg)
        /\ cfg.response \notin ValidResponses) =>
        /\ model_out.err = "ValueError"
        /\ model_out.trace = <<>>

\* the sites of the coefficient groups, in registration order
CoefSites == SelectSeq(model_out.trace, IsCoefSite)

\* C5: w is the concatenation of the per-group draws, every fixed-effect
\* group in the caller's order followed by every random-effect group in
\* the caller's order; the coefficient sites are registered in that order,
\* after "tau" and before the response; column k of the design multiplies
\* the k-th entry of the concatenation.
C5_ConcatenationOrder ==
    (model_out.called /\ model_out.at \notin {"noise", "cat"}) =>
        LET sites == CoefSites
            labels == CoefLabels(cfg)
            \* the number of entries of w before the block of the j-th site
            offset == [j \in 1..(Len(sites) + 1) |->
                         SumSeq([i \in 1..(j - 1) |-> LastDim(sites[i].shape)])]
        IN  /\ Names(sites) = labels
            /\ Len(model_out.w) = offset[Len(sites) + 1]
            /\ \A j \in 1..Len(sites) : \A i \in 1..LastDim(sites[j].shape) :
                  model_out.w[offset[j] + i] = [label |-> labels[j], idx |-> i]
            /\ ~cfg.obs_known => Positions(model_out.trace, "tau") = {1}
            /\ model_out.err = "none" =>
                  /\ Positions(model_out.trace, "y") = {Len(model_out.trace)}
                  /\ Len(model_out.pred) = cfg.p
                  /\ \A k \in 1..cfg.p :
                        model_out.pred[k] = [col |-> k, coef |-> model_out.w[k]]

\* two fixed and two random groups, neither in alphabetical order, unknown noise
C5_Witness ==
    /\ model_out.called
    /\ model_out.err = "none"
    /\ ~cfg.obs_known
    /\ CoefLabels(cfg) = <<"w2", "w1", "u2", "u1">>
    /\ cfg.fixed[1].width = 2
    /\ Names(model_out.trace) = <<"tau", "w2", "w1", "G_u2", "u2", "G_u1", "u1", "y">>

\* the entries of w that come from group label
EntriesOf(label) == { k \in 1..Len(model_out.w) : model_out.w[k].label = label }

\* C10 (as claimed): every random-effect group of size g draws "G_<label>"
\* with shape batch_shape + (group_width,) and "<label>" with shape
\* batch_shape + (g,), contributes g entries to w, and the fixed-effect
\* widths plus the group sizes add up to p.
C10_GroupSizeEntries ==
    (model_out.called /\ model_out.at \notin {"noise", "cat"}) =>
        /\ \A i \in 1..Len(cfg.random) :
              LET g == cfg.random[i]
              IN  /\ SiteOf(model_out.trace, "G_" \o g.label).shape = cfg.batch \o <<g.group_p>>
                  /\ SiteOf(model_out.trace, g.label).shape = cfg.batch \o <<g.group_size>>
                  /\ Cardinality(EntriesOf(g.label)) = g.group_size
        /\ model_out.err = "none" =>
              cfg.p = SumSeq([i \in 1..Len(cfg.fixed) |-> cfg.fixed[i].width])
                      + SumSeq([i \in 1..Len(cfg.random) |-> cfg.random[i].group_size])

\* C10 (amended): "<label>" has shape batch_shape + (g * group_width,), the
\* group contributes g * group_width entries to w, and the fixed-effect
\* widths plus the g * group_width of the random-effect groups add up to
\* the length of w, which is p when the evaluation returns.
C10_TiledGroupEntries ==
    (model_out.called /\ model_out.at \notin {"noise", "cat"}) =>
        /\ \A i \in 1..Len(cfg.random) :
              LET g == cfg.random[i]
              IN  /\ SiteOf(model_out.trace, "G_" \o g.label).shape = cfg.batch \o <<g.group_p>>
                  /\ SiteOf(model_out.trace, g.label).shape
                        = cfg.batch \o <<g.group_size * g.group_p>>
                  /\ Cardinality(EntriesOf(g.label)) = g.group_size * g.group_p
        /\ \A i \in 1..Len(cfg.fixed) :
              /\ SiteOf(model_out.trace, cfg.fixed[i].label).shape
                    = cfg.batch \o <<cfg.fixed[i].width>>
              /\ Cardinality(EntriesOf(cfg.fixed[i].label)) = cfg.fixed[i].width
        /\ Len(model_out.w)
              = SumSeq([i \in 1..Len(cfg.fixed) |-> cfg.fixed[i].width])
                + SumSeq([i \in 1..Len(cfg.random) |->
                            cfg.random[i].group_size * cfg.random[i].group_p])
        /\ model_out.err = "none" => Len(model_out.w) = cfg.p

\* a batched evaluation with a random-effect group of size 2 and width 2
C10_Witness ==
    /\ model_out.called
    /\ model_out.err = "none"
    /\ cfg.batch = <<2>>
    /\ Len(cfg.fixed) = 1
    /\ \E i \in 1..Len(cfg.random) :
          /\ cfg.random[i].group_size = 2
          /\ cfg.random[i].group_p = 2
          /\ SiteOf(model_out.trace, cfg.random[i].label).shape = <<2, 4>>

(***************************************************************************)
(* Properties of the guide.                                                *)
(***************************************************************************)
SiteSet(trace) == { [name |-> trace[i].name, shape |-> trace[i].shape] : i \in 1..Len(trace) }

\* C2 (as claimed): for a configuration the model accepts, the guide
\* evaluated with the same configuration registers exactly the latent
\* sites of the model, with the same shapes, and never the response.
C2_GuideMatchesModel ==
    (model_out.called /\ guide_out.called /\ model_out.err = "none") =>
        /\ SiteSet(guide_out.trace)
              = { site \in SiteSet(model_out.trace) : site.name # "y" }
        /\ Positions(guide_out.trace, "y") = {}

\* C7 (as claimed): a guide evaluation that finds a parameter stored under
\* the same name with another shape than the design implies fails.
C7_ShapeConflictFails ==
    (guide_out.called /\ guide_out.conflict) => guide_out.err # "none"

====
